---- MODULE Spec2Model ----
(***************************************************************************)
(* A model of the webcam-js filter pipeline: the per-pixel filters         *)
(* (channel threshold, RGB->HSV, HSV threshold, RGB->YCbCr, YCbCr          *)
(* threshold) and the region effect engine of MaskFaceFilter.              *)
(*                                                                         *)
(* A pixel is a tuple <<r, g, b, a>> of bytes.  JavaScript numbers are     *)
(* doubles; the model computes with exact rationals n/d.  A store into a   *)
(* Uint8ClampedArray clamps to 0..255 and rounds to nearest, ties to even. *)
(* The double the code stores differs from the exact rational by rounding  *)
(* noise only, which changes the stored byte only when the exact value is  *)
(* a tie k + 1/2: there the model allows both neighbours, unless every     *)
(* intermediate double is exact, and then the tie goes to the even byte.   *)
(***************************************************************************)
EXTENDS Integers, Sequences, FiniteSets, TLC

VARIABLES
    \* ---- one pixel through a chain of at most two filters
    pin,        \* the pixel of the source frame
    px,         \* the pixel as it stands in the output buffer
    stage,      \* "raw" | "first" | "second": how many filters have run on px
    filt,       \* <<name of the first filter, name of the second>> ("none")
    thr,        \* <<threshold read by the first filter, by the second>> (-1)
    prev,       \* the pixel the last filter read
    \* ---- the region effect engine (MaskFaceFilter on the faceDetection canvas)
    src,        \* pixels of the webcamRepeat canvas, the effects' source
    dst,        \* pixels of the faceDetection canvas, the effects' destination
    detections, \* FaceDetectionFilter.detections: a sequence of boxes
    dstBefore,  \* dst as it was when the last key press arrived
    effect,     \* the effect the last key press asked for ("none" before any)
    error,      \* "none", or the exception the last key press ended with
    srcRead,    \* the rectangle <<x, y, w, h>> the last effect asked the source for
    dstWrite,   \* the rectangle <<x, y, w, h>> the last effect handed to the destination
    drawnWith,  \* context.filter as it was when the last effect drew into dst
    \* ---- the pipeline cycle (ImageProcessorApp.processImage)
    out,        \* the pixels of the canvas of every filter but webcamRepeat and faceDetection
    sliders,    \* the value of each threshold slider
    absent,     \* the slider the document lacks ("none"), or "faceModels": no weights loaded
    pending,    \* the answers of the detector that processImage calls still wait for
    ran,        \* the filters whose process ran in the last cycle (faceDetection: up to its await)
    raised,     \* the filter whose process threw in the last cycle ("none")
    moved,      \* the slider whose input event started the last cycle ("none": a click)
    alone,      \* no other cycle has started since the oldest pending one did
    done,       \* [valid, src, sliders, dst] when a cycle last completed alone (NoDone before)
    repeat,     \* the last step completed a cycle that had the frame and sliders of the one before
    cycles,     \* the calls of processImage so far
    seen        \* the picture the detector found the detections in (<<>> before any)

pixelVars == <<pin, px, stage, filt, thr, prev>>

maskVars == <<src, dst, detections, dstBefore, effect, error, srcRead, dstWrite, drawnWith>>

cycleVars == <<out, sliders, absent, pending, ran, raised, moved, alone, done, repeat, cycles, seen>>

vars == <<pin, px, stage, filt, thr, prev,
          src, dst, detections, dstBefore, effect, error, srcRead, dstWrite, drawnWith,
          out, sliders, absent, pending, ran, raised, moved, alone, done, repeat, cycles, seen>>

\* The variables of the pipeline cycle where no cycle is followed.
NoCycle ==
    /\ out = <<>>
    /\ sliders = <<>>
    /\ absent = "none"
    /\ pending = <<>>
    /\ ran = <<>>
    /\ raised = "none"
    /\ moved = "none"
    /\ alone = TRUE
    /\ done = <<>>
    /\ repeat = FALSE
    /\ cycles = 0
    /\ seen = <<>>

\* ------------------------------------------------------------------------
\* Numbers

Max2(a, b) == IF a >= b THEN a ELSE b
Min2(a, b) == IF a <= b THEN a ELSE b
Max3(a, b, c) == Max2(a, Max2(b, c))
Min3(a, b, c) == Min2(a, Min2(b, c))
Abs(n) == IF n < 0 THEN -n ELSE n

\* Math.round(n/d), d > 0: floor(n/d + 1/2).
MathRound(n, d) == (2 * n + d) \div (2 * d)

\* The bytes a Uint8ClampedArray may hold after the store of n/d (d > 0).
ToUint8Clamped(n, d) ==
    IF n <= 0 THEN {0}
    ELSE IF n >= 255 * d THEN {255}
    ELSE LET q == n \div d
             r == n % d
         IN  IF 2 * r < d THEN {q}
             ELSE IF 2 * r > d THEN {q + 1}
             ELSE {q, q + 1}

\* The byte stored for n/d when the double the code computed is exactly n/d.
ToUint8ClampedExact(n, d) ==
    IF n <= 0 THEN {0}
    ELSE IF n >= 255 * d THEN {255}
    ELSE LET q == n \div d
             r == n % d
         IN  IF 2 * r < d THEN {q}
             ELSE IF 2 * r > d THEN {q + 1}
             ELSE IF q % 2 = 0 THEN {q} ELSE {q + 1}

\* ------------------------------------------------------------------------
\* constants.js

Y_R == 299000
Y_G == 587000
Y_B == 114000
CB_R == -168736
CB_G == -331264
CB_B == 500000
CR_R == 500000
CR_G == -418688
CR_B == -81312
\* The coefficients above are the RGB_TO_YCBCR table times Million.
Million == 1000000

BLOCK_SIZE == 5
BLUR_RADIUS == 10

\* ------------------------------------------------------------------------
\* ChannelThresholdFilter (channelIndex: red 1, green 2, blue 3 of the tuple)

channelIndex(channel) ==
    CASE channel = "red" -> 1 [] channel = "green" -> 2 [] channel = "blue" -> 3

\* The comparison with its two outcomes exchanged.
ChannelThresholdValue_inverted(c, threshold) == IF c > threshold THEN 0 ELSE 255

ChannelThresholdValue_ge(c, threshold) == IF c >= threshold THEN 255 ELSE 0

ChannelThresholdValue(c, threshold) == IF c > threshold THEN 255 ELSE 0

ChannelThreshold_keepAlpha(p, channel, threshold) ==
    LET value == ChannelThresholdValue(p[channelIndex(channel)], threshold)
    IN  << IF channel = "red" THEN value ELSE 0,
           IF channel = "green" THEN value ELSE 0,
           IF channel = "blue" THEN value ELSE 0,
           p[4] >>

ChannelThresholdFilter_processImageData(p, channel, threshold) ==
    LET value == ChannelThresholdValue(p[channelIndex(channel)], threshold)
    IN  << IF channel = "red" THEN value ELSE 0,
           IF channel = "green" THEN value ELSE 0,
           IF channel = "blue" THEN value ELSE 0,
           255 >>

\* ------------------------------------------------------------------------
\* RgbHsvFilter

\* The hue in degrees as the rational hueNum/hueDen.  With r the maximum the
\* code takes ((g - b) / diff) % 6, and JavaScript's % keeps the sign of the
\* dividend: |(g - b)/diff| <= 1 < 6, so the value is (g - b)/diff itself,
\* negative when g < b.
hueNum(R, G, B) ==
    LET max == Max3(R, G, B)
        diff == max - Min3(R, G, B)
    IN  IF diff = 0 THEN 0
        ELSE IF max = R THEN 60 * (G - B)
        ELSE IF max = G THEN 60 * ((B - R) + 2 * diff)
        ELSE 60 * ((R - G) + 4 * diff)

hueDen(R, G, B) ==
    LET diff == Max3(R, G, B) - Min3(R, G, B)
    IN  IF diff = 0 THEN 1 ELSE diff

\* The quotient the hue is built from, (g - b)/diff and its like, is a whole
\* number (diff is then the very difference in the numerator, or the numerator
\* is 0): the doubles of h, h * 255 and h * 255 / 360 are then all exact.
hueExact(R, G, B) == hueNum(R, G, B) % (60 * hueDen(R, G, B)) = 0

\* The set of pixels the filter may store for the pixel p.
RgbHsvFilter_processImageData(p) ==
    LET R == p[1]
        G == p[2]
        B == p[3]
        max == Max3(R, G, B)
        diff == max - Min3(R, G, B)
        H == IF hueExact(R, G, B)
             THEN ToUint8ClampedExact(255 * hueNum(R, G, B), 360 * hueDen(R, G, B))
             ELSE ToUint8Clamped(255 * hueNum(R, G, B), 360 * hueDen(R, G, B))
        S == IF max = 0 THEN {0} ELSE ToUint8Clamped(255 * diff, max)
        V == ToUint8Clamped(255 * max, 255)
    IN  { <<h, s, v, p[4]>> : h \in H, s \in S, v \in V }

\* hsvToRgb(h, s, v) on stored bytes.  With h = 360 hb/255 degrees the sector
\* is floor(h/60) = floor(2 hb/85); (h/60) % 2 = ((2 hb) % 170)/85.  All of
\* c, x and m are kept over the common denominator 255 * 255 * 85, and the
\* result is Math.round((component + m) * 255).
hsvToRgb(hb, sb, vb) ==
    LET c == vb * sb * 85
        x == vb * sb * (85 - Abs(((2 * hb) % 170) - 85))
        m == (255 * vb - vb * sb) * 85
        sector == (2 * hb) \div 85
        rgb == CASE sector = 0 -> <<c, x, 0>>
                 [] sector = 1 -> <<x, c, 0>>
                 [] sector = 2 -> <<0, c, x>>
                 [] sector = 3 -> <<0, x, c>>
                 [] sector = 4 -> <<x, 0, c>>
                 [] sector = 5 -> <<c, 0, x>>
                 [] OTHER -> <<0, 0, 0>>
        den == 255 * 85
    IN  << MathRound(rgb[1] + m, den),
           MathRound(rgb[2] + m, den),
           MathRound(rgb[3] + m, den) >>

\* ------------------------------------------------------------------------
\* RgbHsvThresholdFilter

\* The filter comparing the saturation byte with the threshold.
RgbHsvThreshold_onSaturation(p, threshold) ==
    IF p[2] > threshold
    THEN LET rgb == hsvToRgb(p[1], p[2], p[3])
         IN  <<rgb[1], rgb[2], rgb[3], 255>>
    ELSE <<0, 0, 0, 255>>

\* The filter without its store into the alpha byte.
RgbHsvThreshold_keepAlpha(p, threshold) ==
    IF p[3] > threshold
    THEN LET rgb == hsvToRgb(p[1], p[2], p[3])
         IN  <<rgb[1], rgb[2], rgb[3], p[4]>>
    ELSE <<0, 0, 0, p[4]>>

RgbHsvThresholdFilter_processImageData(p, threshold) ==
    IF p[3] > threshold
    THEN LET rgb == hsvToRgb(p[1], p[2], p[3])
         IN  <<rgb[1], rgb[2], rgb[3], 255>>
    ELSE <<0, 0, 0, 255>>

\* ------------------------------------------------------------------------
\* YCbCrFilter

YCbCr_noOffset(p) ==
    LET r == p[1]
        g == p[2]
        b == p[3]
        Y == ToUint8Clamped(Y_R * r + Y_G * g + Y_B * b, Million)
        Cb == ToUint8Clamped(CB_R * r + CB_G * g + CB_B * b, Million)
        Cr == ToUint8Clamped(CR_R * r + CR_G * g + CR_B * b, Million)
    IN  { <<y, cb, cr, p[4]>> : y \in Y, cb \in Cb, cr \in Cr }

YCbCrFilter_processImageData(p) ==
    LET r == p[1]
        g == p[2]
        b == p[3]
        Y == ToUint8Clamped(Y_R * r + Y_G * g + Y_B * b, Million)
        Cb == ToUint8Clamped(128 * Million + CB_R * r + CB_G * g + CB_B * b, Million)
        Cr == ToUint8Clamped(128 * Million + CR_R * r + CR_G * g + CR_B * b, Million)
    IN  { <<y, cb, cr, p[4]>> : y \in Y, cb \in Cb, cr \in Cr }

\* ------------------------------------------------------------------------
\* YCbCrThresholdFilter

YCbCrThresholdFilter_processImageData(p, threshold) ==
    LET value == IF p[1] > threshold THEN 255 ELSE 0
    IN  <<value, value, value, 255>>

\* ------------------------------------------------------------------------
\* GrayScaleFilter, ChannelFilter, WebcamRepeatFilter

\* The byte the double arithmetic stores: the same pixel gives the same byte
\* every time, whichever neighbour of a tie that is.
Stored(S) == CHOOSE q \in S : TRUE

\* brightnessIncrease = 1.2 = BrightnessNum / BrightnessDen
BrightnessNum == 12
BrightnessDen == 10

\* The filter without Math.min, storing into bytes that wrap around.
GrayScaleFilter_wrap(p) ==
    LET sum == p[1] + p[2] + p[3]
        brightened == MathRound(BrightnessNum * sum, 3 * BrightnessDen) % 256
    IN  <<brightened, brightened, brightened, p[4]>>

\* gray = (r + g + b) / 3; Math.min(gray * brightnessIncrease, 255) stored in
\* the three colour bytes.  (r + g + b) * 2 / 5 is never a tie.
GrayScaleFilter_processImageData(p) ==
    LET sum == p[1] + p[2] + p[3]
        brightened == Stored(ToUint8Clamped(Min2(BrightnessNum * sum, 255 * 3 * BrightnessDen),
                                            3 * BrightnessDen))
    IN  <<brightened, brightened, brightened, p[4]>>

\* The filter with the alpha byte forced to 255, as the threshold filters do.
ChannelFilter_opaque(p, channel) ==
    LET value == p[channelIndex(channel)]
    IN  << IF channel = "red" THEN value ELSE 0,
           IF channel = "green" THEN value ELSE 0,
           IF channel = "blue" THEN value ELSE 0,
           255 >>

ChannelFilter_processImageData(p, channel) ==
    LET value == p[channelIndex(channel)]
    IN  << IF channel = "red" THEN value ELSE 0,
           IF channel = "green" THEN value ELSE 0,
           IF channel = "blue" THEN value ELSE 0,
           p[4] >>

WebcamRepeatFilter_processImageData(p) == p

\* The name of the ChannelFilter of a channel among the filters of the app.
ChannelFilterName(channel) ==
    CASE channel = "red" -> "redChannel"
      [] channel = "green" -> "greenChannel"
      [] channel = "blue" -> "blueChannel"

\* ------------------------------------------------------------------------
\* One pixel through the pipeline: ImageFilter.process draws the source into
\* the filter's canvas, reads it back, runs processImageData on it and puts
\* the result.  A dependent filter takes the canvas of its upstream filter as
\* the source, so a pixel passes through at most two filters.

ChannelSamples == {0, 1, 128, 255}
AlphaSamples == {128, 255}
ThresholdSamples == {0, 1, 128, 255}
Channels == {"red", "green", "blue"}

InitPixel ==
    /\ pin \in ChannelSamples \X ChannelSamples \X ChannelSamples \X AlphaSamples
    /\ px = pin
    /\ stage = "raw"
    /\ filt = <<"none", "none">>
    /\ thr = <<-1, -1>>
    /\ prev = pin
    /\ src = <<>>
    /\ dst = <<>>
    /\ detections = <<>>
    /\ dstBefore = <<>>
    /\ effect = "none"
    /\ error = "none"
    /\ srcRead = <<>>
    /\ dstWrite = <<>>
    /\ drawnWith = <<"none", 0>>
    /\ NoCycle

\* The bookkeeping of a filter run on px with result q.
Ran(name, t, q) ==
    /\ px' = q
    /\ prev' = px
    /\ stage' = IF stage = "raw" THEN "first" ELSE "second"
    /\ filt' = IF stage = "raw" THEN <<name, "none">> ELSE <<filt[1], name>>
    /\ thr' = IF stage = "raw" THEN <<t, -1>> ELSE <<thr[1], t>>
    /\ UNCHANGED pin
    /\ UNCHANGED maskVars
    /\ UNCHANGED cycleVars

\* processImage runs a dependent filter on the canvas of its upstream filter.
\* A canvas gives back the bytes put into it for an opaque pixel; what it gives
\* back for a translucent one depends on the browser's premultiplied storage,
\* and the frames of the webcam are opaque.
Upstream(name) ==
    /\ stage = "first"
    /\ filt[1] = name
    /\ px[4] = 255

ProcessChannelThreshold ==
    /\ stage = "raw"
    /\ \E channel \in Channels, t \in ThresholdSamples :
          Ran(channel, t, ChannelThresholdFilter_processImageData(px, channel, t))

ProcessRgbHsv ==
    /\ stage = "raw"
    /\ \E q \in RgbHsvFilter_processImageData(px) : Ran("rgbHsv", -1, q)

ProcessRgbHsvThreshold ==
    /\ Upstream("rgbHsv")
    /\ \E t \in ThresholdSamples :
          Ran("rgbHsvThreshold", t, RgbHsvThresholdFilter_processImageData(px, t))

ProcessYCbCr ==
    /\ stage = "raw"
    /\ \E q \in YCbCrFilter_processImageData(px) : Ran("ycbcr", -1, q)

ProcessYCbCrThreshold ==
    /\ Upstream("ycbcr")
    /\ \E t \in ThresholdSamples :
          Ran("ycbcrThreshold", t, YCbCrThresholdFilter_processImageData(px, t))

ProcessGrayScale ==
    /\ stage = "raw"
    /\ Ran("grayscale", -1, GrayScaleFilter_processImageData(px))

ProcessChannel ==
    /\ stage = "raw"
    /\ \E channel \in Channels :
          Ran(ChannelFilterName(channel), -1, ChannelFilter_processImageData(px, channel))

\* YCbCrThresholdFilter.processImageData on an ImageData of any content.
ProcessYCbCrThresholdOnData ==
    /\ stage = "raw"
    /\ \E t \in ThresholdSamples :
          Ran("ycbcrThreshold", t, YCbCrThresholdFilter_processImageData(px, t))

\* What getImageData may give for the translucent pixel p of a canvas: the
\* canvas keeps alpha, and the colours through its premultiplied storage,
\* each within 1 of what was put for the alpha of AlphaSamples.
Readback(p) ==
    LET near(c) == { v \in 0 .. 255 : Abs(v - c) <= 1 }
    IN  { <<r, g, b, p[4]>> : r \in near(p[1]), g \in near(p[2]), b \in near(p[3]) }

\* RgbHsvThresholdFilter.process on the canvas of RgbHsvFilter where the
\* frame, and so that canvas, is translucent.
ProcessRgbHsvThresholdTranslucent ==
    /\ stage = "first"
    /\ filt[1] = "rgbHsv"
    /\ px[4] # 255
    /\ \E t \in ThresholdSamples, read \in Readback(px) :
          /\ px' = RgbHsvThresholdFilter_processImageData(read, t)
          /\ prev' = read
          /\ stage' = "second"
          /\ filt' = <<filt[1], "rgbHsvThreshold">>
          /\ thr' = <<thr[1], t>>
          /\ UNCHANGED pin
          /\ UNCHANGED maskVars
          /\ UNCHANGED cycleVars

\* A threshold filter run on what it has just emitted, the slider unmoved.
ProcessThresholdAgain ==
    /\ stage = "first"
    /\ \/ /\ filt[1] \in Channels
          /\ Ran(filt[1], thr[1], ChannelThresholdFilter_processImageData(px, filt[1], thr[1]))
       \/ /\ filt[1] = "ycbcrThreshold"
          /\ Ran(filt[1], thr[1], YCbCrThresholdFilter_processImageData(px, thr[1]))

NextPixel ==
    \/ ProcessChannelThreshold
    \/ ProcessRgbHsv
    \/ ProcessRgbHsvThreshold
    \/ ProcessYCbCr
    \/ ProcessYCbCrThreshold
    \/ ProcessGrayScale
    \/ ProcessChannel
    \/ ProcessYCbCrThresholdOnData
    \/ ProcessRgbHsvThresholdTranslucent
    \/ ProcessThresholdAgain

SpecPixel == InitPixel /\ [][NextPixel]_vars

\* ------------------------------------------------------------------------
\* The canvases.  The frame is CANVAS_WIDTH by CANVAS_HEIGHT in every
\* ImageFilter (160 by 120 in constants.js; the model runs the same code on a
\* smaller frame).  Coordinates and sizes are whole numbers.

CANVAS_WIDTH == 6
CANVAS_HEIGHT == 6

Transparent == <<0, 0, 0, 0>>

\* A surface is [width, height, pix]; pix is the pixel array in row order, as
\* in ImageData.data: the pixel at (x, y) is pix[y * width + x + 1].
Surface(w, h, pix) == [width |-> w, height |-> h, pix |-> pix]

At(c, x, y) == c.pix[y * c.width + x + 1]

\* The coordinates of the i-th pixel of an array of rows of width w.
XOf(i, w) == (i - 1) % w
YOf(i, w) == (i - 1) \div w

\* A pixel array, evaluated where it is built rather than at every use.
Built(pix) == IF pix = <<>> THEN <<>> ELSE pix

\* A canvas of an ImageFilter, holding the pixels pix.
Canvas(pix) == Surface(CANVAS_WIDTH, CANVAS_HEIGHT, pix)

\* document.createElement("canvas") with width w and height h: transparent black.
createCanvas(w, h) == Surface(w, h, Built([i \in 1 .. w * h |-> Transparent]))

Inside(c, x, y) == x \in 0 .. c.width - 1 /\ y \in 0 .. c.height - 1

InRect(qx, qy, x, y, w, h) == qx \in x .. x + w - 1 /\ qy \in y .. y + h - 1

\* context.getImageData(sx, sy, sw, sh), sw > 0 and sh > 0: the pixels of the
\* rectangle, transparent black where the rectangle lies outside the canvas.
getImageData(c, sx, sy, sw, sh) ==
    Surface(sw, sh,
            Built([i \in 1 .. sw * sh |->
                      LET x == sx + XOf(i, sw)
                          y == sy + YOf(i, sw)
                      IN  IF Inside(c, x, y) THEN At(c, x, y) ELSE Transparent]))

\* putImageData with the rows of img written into the flat pixel array at
\* (dy + y) * width + dx + x with no test against the row's end: what falls
\* beyond the right edge lands at the start of the next row.
putImageData_wrap(c, img, dx, dy) ==
    Built([i \in 1 .. c.width * c.height |->
              LET from == { j \in 1 .. img.width * img.height :
                              (dy + YOf(j, img.width)) * c.width + dx + XOf(j, img.width) + 1 = i }
              IN  IF from # {} THEN img.pix[CHOOSE j \in from : TRUE] ELSE c.pix[i]])

\* context.putImageData(img, dx, dy): the pixels of img replace those of the
\* canvas; what falls outside the canvas is dropped.
putImageData(c, img, dx, dy) ==
    Built([i \in 1 .. c.width * c.height |->
              LET x == XOf(i, c.width)
                  y == YOf(i, c.width)
              IN  IF InRect(x, y, dx, dy, img.width, img.height)
                  THEN At(img, x - dx, y - dy)
                  ELSE c.pix[i]])

\* context.drawImage(image, sx, sy, sw, sh, dx, dy, sw, sh) with filter "none":
\* nothing is drawn when sw or sh is zero; the source rectangle is clipped to
\* the image and the destination rectangle in proportion; the pixels are
\* composited source-over (a pixel is opaque or transparent black).
drawImage(c, image, sx, sy, sw, sh, dx, dy) ==
    Built([i \in 1 .. c.width * c.height |->
              LET x == XOf(i, c.width)
                  y == YOf(i, c.width)
                  ix == sx + (x - dx)
                  iy == sy + (y - dy)
              IN  IF /\ InRect(x, y, dx, dy, sw, sh)
                     /\ Inside(image, ix, iy)
                     /\ At(image, ix, iy)[4] = 255
                  THEN At(image, ix, iy)
                  ELSE c.pix[i]])

\* context.clearRect(x, y, w, h)
clearRect(c, rx, ry, w, h) ==
    Built([i \in 1 .. c.width * c.height |->
              IF InRect(XOf(i, c.width), YOf(i, c.width), rx, ry, w, h)
              THEN Transparent
              ELSE c.pix[i]])

\* fillRect filling one row only (a wrong height argument).
fillRect_oneRow(c, rx, ry, w, h, rgb) ==
    Built([i \in 1 .. c.width * c.height |->
              IF InRect(XOf(i, c.width), YOf(i, c.width), rx, ry, w, 1)
              THEN <<rgb[1], rgb[2], rgb[3], 255>>
              ELSE c.pix[i]])

\* context.fillRect(x, y, w, h) with fillStyle rgb(r, g, b)
fillRect(c, rx, ry, w, h, rgb) ==
    Built([i \in 1 .. c.width * c.height |->
              IF InRect(XOf(i, c.width), YOf(i, c.width), rx, ry, w, h)
              THEN <<rgb[1], rgb[2], rgb[3], 255>>
              ELSE c.pix[i]])

\* context.strokeRect(x, y, w, h) with lineWidth 2 and strokeStyle #00ff00:
\* on integer coordinates the stroke covers the pixels within one pixel of the
\* outline; nothing is drawn when w and h are both zero.
strokeRect(c, rx, ry, w, h) ==
    Built([i \in 1 .. c.width * c.height |->
              LET x == XOf(i, c.width)
                  y == YOf(i, c.width)
              IN  IF /\ ~(w = 0 /\ h = 0)
                     /\ InRect(x, y, rx - 1, ry - 1, w + 2, h + 2)
                     /\ ~InRect(x, y, rx + 1, ry + 1, w - 2, h - 2)
                  THEN <<0, 255, 0, 255>>
                  ELSE c.pix[i]])

\* ------------------------------------------------------------------------
\* MaskFaceFilter.  A region is [x, y, width, height].  Every handler yields
\* [pix: the destination's pixels afterwards, error, srcRead, dstWrite, filter:
\* this.context.filter as it is when the handler writes to the destination].
\* A filter is <<"none", 0>> or <<"blur", radius>>.

Outcome(pix, err, rd, wr, flt) ==
    [pix |-> pix, error |-> err, srcRead |-> rd, dstWrite |-> wr, filter |-> flt]

NoFilter == <<"none", 0>>

RectOf(region) == <<region.x, region.y, region.width, region.height>>

RECURSIVE SumFrom(_, _, _)
\* The sum of channel k of the pixels i, i + 1, ... of the array data.
SumFrom(data, i, k) ==
    IF i > Len(data) THEN 0 ELSE data[i][k] + SumFrom(data, i + 1, k)

\* data is the pixel array of the block; count ends as its length.
calculateAverageColor(data) ==
    LET count == Len(data)
    IN  << MathRound(SumFrom(data, 1, 1), count),
           MathRound(SumFrom(data, 1, 2), count),
           MathRound(SumFrom(data, 1, 3), count) >>

getRegionImageData(region, sourceCanvas) ==
    getImageData(sourceCanvas, region.x, region.y, region.width, region.height)

\* putRegionImageData putting the data at the canvas origin.
putRegionImageData_atOrigin(context, imageData, region) ==
    putImageData(context, imageData, 0, 0)

putRegionImageData(context, imageData, region) ==
    putImageData(context, imageData, region.x, region.y)

\* (r + g + b) / 3 cut to a whole number before it is stored.
GrayPixel_truncated(p) ==
    LET gray == (p[1] + p[2] + p[3]) \div 3
    IN  <<gray, gray, gray, p[4]>>

\* (r + g + b) / 3 stored into the three colour bytes; thirds are never ties.
GrayPixel(p) ==
    LET gray == CHOOSE v \in ToUint8Clamped(p[1] + p[2] + p[3], 3) : TRUE
    IN  <<gray, gray, gray, p[4]>>

applyGrayscaleMask(context, faceRegion, sourceCanvas) ==
    IF faceRegion.width = 0 \/ faceRegion.height = 0
    THEN Outcome(context.pix, "IndexSizeError", RectOf(faceRegion), <<>>, NoFilter)
    ELSE LET imageData == getRegionImageData(faceRegion, sourceCanvas)
             data == Surface(imageData.width, imageData.height,
                             Built([i \in DOMAIN imageData.pix |-> GrayPixel(imageData.pix[i])]))
         IN  Outcome(putRegionImageData(context, data, faceRegion), "none",
                     RectOf(faceRegion), RectOf(faceRegion), NoFilter)

\* The byte stored for a tie: the upper neighbour when up, else the lower.
Pick(S, up) == CHOOSE v \in S : \A u \in S : IF up THEN u <= v ELSE v <= u

YCbCrPixel(p, up) ==
    LET r == p[1]
        g == p[2]
        b == p[3]
    IN  << Pick(ToUint8Clamped(Y_R * r + Y_G * g + Y_B * b, Million), up),
           Pick(ToUint8Clamped(128 * Million + CB_R * r + CB_G * g + CB_B * b, Million), up),
           Pick(ToUint8Clamped(128 * Million + CR_R * r + CR_G * g + CR_B * b, Million), up),
           p[4] >>

applyYCbCrMask(context, faceRegion, sourceCanvas, up) ==
    IF faceRegion.width = 0 \/ faceRegion.height = 0
    THEN Outcome(context.pix, "IndexSizeError", RectOf(faceRegion), <<>>, NoFilter)
    ELSE LET imageData == getRegionImageData(faceRegion, sourceCanvas)
             data == Surface(imageData.width, imageData.height,
                             Built([i \in DOMAIN imageData.pix |->
                                       YCbCrPixel(imageData.pix[i], up)]))
         IN  Outcome(putRegionImageData(context, data, faceRegion), "none",
                     RectOf(faceRegion), RectOf(faceRegion), NoFilter)

\* this.context.filter is blur(10px) only while the temporary canvas is made
\* and filled; both drawImage calls run with filter "none".  A temporary
\* canvas of zero width or height is not a usable image: the second drawImage
\* throws InvalidStateError.
applyBlurMask(context, faceRegion, sourceCanvas) ==
    LET filterSet == <<"blur", BLUR_RADIUS>>
        tempCanvas == createCanvas(faceRegion.width, faceRegion.height)
        tempPix == drawImage(tempCanvas, sourceCanvas,
                             faceRegion.x, faceRegion.y, faceRegion.width, faceRegion.height,
                             0, 0)
        temp == Surface(faceRegion.width, faceRegion.height, tempPix)
        filterReset == NoFilter
        cleared == Canvas(clearRect(context, faceRegion.x, faceRegion.y,
                                    faceRegion.width, faceRegion.height))
    IN  IF faceRegion.width = 0 \/ faceRegion.height = 0
        THEN Outcome(cleared.pix, "InvalidStateError", RectOf(faceRegion), <<>>, filterReset)
        ELSE Outcome(drawImage(cleared, temp, 0, 0, faceRegion.width, faceRegion.height,
                               faceRegion.x, faceRegion.y),
                     "none", RectOf(faceRegion), RectOf(faceRegion), filterReset)

RECURSIVE PixelateBlocks(_, _, _)
\* The block loop from the block at (x, y) on, rows outermost.
PixelateBlocks(temp, x, y) ==
    IF y >= temp.height THEN temp
    ELSE IF x >= temp.width THEN PixelateBlocks(temp, 0, y + BLOCK_SIZE)
    ELSE LET blockWidth == Min2(BLOCK_SIZE, temp.width - x)
             blockHeight == Min2(BLOCK_SIZE, temp.height - y)
             blockData == getImageData(temp, x, y, blockWidth, blockHeight)
             avgColor == calculateAverageColor(blockData.pix)
             filled == fillRect(temp, x, y, BLOCK_SIZE, BLOCK_SIZE, avgColor)
         IN  PixelateBlocks(Surface(temp.width, temp.height, filled), x + BLOCK_SIZE, y)

applyPixelateMask(context, faceRegion, sourceCanvas) ==
    LET tempCanvas == createCanvas(faceRegion.width, faceRegion.height)
        tempPix == drawImage(tempCanvas, sourceCanvas,
                             faceRegion.x, faceRegion.y, faceRegion.width, faceRegion.height,
                             0, 0)
        temp == PixelateBlocks(Surface(faceRegion.width, faceRegion.height, tempPix), 0, 0)
    IN  IF faceRegion.width = 0 \/ faceRegion.height = 0
        THEN Outcome(context.pix, "InvalidStateError", RectOf(faceRegion), <<>>, NoFilter)
        ELSE Outcome(drawImage(context, temp, 0, 0, faceRegion.width, faceRegion.height,
                               faceRegion.x, faceRegion.y),
                     "none", RectOf(faceRegion), RectOf(faceRegion), NoFilter)

Effects == {"grayscale", "blur", "pixelate", "ycbcr"}

\* this.effectHandlers[effect]: what the lookup on the object literal of the
\* constructor gives.  The literal has the four bound methods as its own
\* properties and inherits those of Object.prototype: "handler" is one of
\* the four; "function" an inherited function that returns when called with
\* this undefined, as a call of the bare handler in module code does;
\* "functionOfThis" an inherited function that converts this to an object
\* first and raises a TypeError on undefined; "object" the prototype itself,
\* which is truthy and cannot be called; "undefined" any other name.
effectHandlers(eff) ==
    CASE eff \in Effects -> "handler"
      [] eff \in {"toString", "constructor"} -> "function"
      [] eff \in {"valueOf", "hasOwnProperty", "isPrototypeOf",
                  "propertyIsEnumerable", "toLocaleString"} -> "functionOfThis"
      [] eff = "__proto__" -> "object"
      [] OTHER -> "undefined"

\* applyEffect: if (handler) handler(faceRegion, sourceCanvas)
applyEffect(context, eff, faceRegion, sourceCanvas, up) ==
    CASE eff = "grayscale" -> applyGrayscaleMask(context, faceRegion, sourceCanvas)
      [] eff = "blur" -> applyBlurMask(context, faceRegion, sourceCanvas)
      [] eff = "pixelate" -> applyPixelateMask(context, faceRegion, sourceCanvas)
      [] eff = "ycbcr" -> applyYCbCrMask(context, faceRegion, sourceCanvas, up)
      [] effectHandlers(eff) \in {"functionOfThis", "object"} ->
             Outcome(context.pix, "TypeError", <<>>, <<>>, NoFilter)
      [] OTHER -> Outcome(context.pix, "none", <<>>, <<>>, NoFilter)

\* ------------------------------------------------------------------------
\* The region effect engine as a state machine: a frame is captured and a face
\* detected on it (FaceDetectionFilter.process draws the frame and strokes the
\* box), then key presses apply effects to the box.

\* The frames the camera may deliver.
UniformPixel(x, y) == <<200, 100, 50, 255>>

VariedPixel(x, y) ==
    <<(37 * x + 11 * y) % 256, (90 * y + 3 * x * x) % 256, (255 - 29 * x - 7 * y) % 256, 255>>

Frames ==
    { [i \in 1 .. CANVAS_WIDTH * CANVAS_HEIGHT |->
          UniformPixel(XOf(i, CANVAS_WIDTH), YOf(i, CANVAS_WIDTH))],
      [i \in 1 .. CANVAS_WIDTH * CANVAS_HEIGHT |->
          VariedPixel(XOf(i, CANVAS_WIDTH), YOf(i, CANVAS_WIDTH))] }

\* The boxes the detector may report: every horizontal extent from one pixel
\* left of the frame to one pixel beyond its right edge, and the vertical
\* extents that lie above, inside, across the bottom edge of and below the frame.
Regions ==
    [x : -1 .. CANVAS_WIDTH,
     y : {-1, 0, CANVAS_HEIGHT - 1, CANVAS_HEIGHT},
     width : 0 .. CANVAS_WIDTH + 1,
     height : {0, 1, CANVAS_HEIGHT, CANVAS_HEIGHT + 1}]

KeyEffect(key) ==
    CASE key = "1" -> "grayscale"
      [] key = "2" -> "blur"
      [] key = "3" -> "ycbcr"
      [] key = "4" -> "pixelate"
      [] OTHER -> "unhandled"

\* The keys a behaviour presses: the four of the switch and one of its default.
Keys == {"1", "2", "3", "4", "5"}

\* The names applyEffect is called with besides the four of the switch: one
\* no object has, and three every object inherits.
EffectNames == {"sepia", "toString", "valueOf", "__proto__"}

InitMask ==
    /\ src \in Frames
    /\ dst = src
    /\ detections = <<>>
    /\ dstBefore = dst
    /\ effect = "none"
    /\ error = "none"
    /\ srcRead = <<>>
    /\ dstWrite = <<>>
    /\ drawnWith = NoFilter
    /\ NoCycle
    /\ pin = <<0, 0, 0, 255>>
    /\ px = pin
    /\ stage = "raw"
    /\ filt = <<"none", "none">>
    /\ thr = <<-1, -1>>
    /\ prev = pin

\* FaceDetectionFilter.process(webcamRepeat.canvas) with one face found.
FaceDetected ==
    \E box \in Regions :
        /\ detections = <<>>
        /\ detections' = <<box>>
        /\ dst' = strokeRect(Canvas(drawImage(Canvas(dst), Canvas(src), 0, 0,
                                              CANVAS_WIDTH, CANVAS_HEIGHT, 0, 0)),
                             box.x, box.y, box.width, box.height)
        /\ dstBefore' = dst'
        /\ effect' = "none"
        /\ UNCHANGED <<src, error, srcRead, dstWrite, drawnWith>>
        /\ UNCHANGED pixelVars
        /\ UNCHANGED cycleVars

\* handleKeyPress with no guard on the detections: with none, the effect is
\* applied to the whole frame.
handleKeyPress_wholeFrame(context, key, dets, sourceCanvas, up) ==
    applyEffect(context, KeyEffect(key),
                IF Len(dets) > 0 THEN dets[1]
                ELSE [x |-> 0, y |-> 0, width |-> CANVAS_WIDTH, height |-> CANVAS_HEIGHT],
                sourceCanvas, up)

\* The body of handleKeyPress: for the keys 1 to 4 the effect on the first
\* box of the detections, nothing when there is none; any other key only
\* warns on the console.
handleKeyPress(context, key, dets, sourceCanvas, up) ==
    IF Len(dets) > 0 /\ KeyEffect(key) # "unhandled"
    THEN applyEffect(context, KeyEffect(key), dets[1], sourceCanvas, up)
    ELSE Outcome(context.pix, "none", <<>>, <<>>, drawnWith)

\* MaskFaceFilter constructed on the canvas that handleKeyPress reads from.
maskFaceCanvasId_webcamRepeat == "webcamRepeat"

\* new MaskFaceFilter('faceDetection'): the canvas the effects write to.
maskFaceCanvasId == "faceDetection"

\* this.filters.webcamRepeat.canvas: the canvas handleKeyPress hands over as
\* the source.
sourceCanvasId == "webcamRepeat"

\* The two canvases by the id of their element.
Canvases == [webcamRepeat |-> src, faceDetection |-> dst]

\* The state after a call of a handler that ended with result: the canvas of
\* the MaskFaceFilter holds the pixels of the result.
Effected(result) ==
    /\ \E after \in { [Canvases EXCEPT ![maskFaceCanvasId] = result.pix] } :
           /\ src' = after.webcamRepeat
           /\ dst' = after.faceDetection
    /\ error' = result.error
    /\ srcRead' = result.srcRead
    /\ dstWrite' = result.dstWrite
    /\ drawnWith' = result.filter

\* ImageProcessorApp.handleKeyPress for the keys 1 to 4.  The model follows one
\* key press before a detection and one after it; effect is the effect the key
\* press since the last detection asked for.  An exception of the handler is
\* rethrown, so the promise of handleKeyPress rejects; error records its name.
KeyPress ==
    \E key \in Keys, up \in BOOLEAN :
        /\ key # "3" => up
        /\ effect = "none"
        /\ \E out1 \in { handleKeyPress(Canvas(Canvases[maskFaceCanvasId]), key, detections,
                                         Canvas(Canvases[sourceCanvasId]), up) } :
               Effected(out1)
        /\ dstBefore' = dst
        /\ effect' = KeyEffect(key)
        /\ UNCHANGED detections
        /\ UNCHANGED pixelVars
        /\ UNCHANGED cycleVars

\* maskFace.applyEffect called with a name that is none of the four, on the
\* first box of the detections and the canvas handleKeyPress hands over.  The
\* call is not inside the try of handleKeyPress: what it raises leaves as it is.
ApplyEffect ==
    \E name \in EffectNames :
        /\ effect = "none"
        /\ detections # <<>>
        /\ \E out1 \in { applyEffect(Canvas(Canvases[maskFaceCanvasId]), name, detections[1],
                                      Canvas(Canvases[sourceCanvasId]), TRUE) } :
               Effected(out1)
        /\ dstBefore' = dst
        /\ effect' = name
        /\ UNCHANGED detections
        /\ UNCHANGED pixelVars
        /\ UNCHANGED cycleVars

NextMask == FaceDetected \/ KeyPress \/ ApplyEffect

SpecMask == InitMask /\ [][NextMask]_vars

\* ------------------------------------------------------------------------
\* ImageProcessorApp: the filters, the sliders and the cycle

\* A cycle that draws nothing: the canvas keeps what it held.
ImageFilter_drawImage_skip(canvas, source) == canvas

\* ImageFilter.drawImage(source): the source, a frame of the camera or a
\* canvas of the size of the canvas, drawn over the whole canvas, source-over
\* (a pixel is opaque or transparent black).
ImageFilter_drawImage(canvas, source) ==
    Built([i \in DOMAIN canvas |-> IF source[i][4] = 255 THEN source[i] ELSE canvas[i]])

\* context.getImageData(0, 0, canvas.width, canvas.height): the whole canvas.
ImageFilter_getImageData(canvas) == Canvas(canvas)

\* context.putImageData(imageData, 0, 0) with an ImageData of the size of the
\* canvas: every pixel is replaced.
ImageFilter_putImageData(canvas, imageData) == imageData.pix

\* The steps of processImage with the dependent filters ahead of their
\* upstream filters.
Pipeline_dependentsFirst ==
    << "webcamRepeat", "grayscale", "redChannel", "greenChannel", "blueChannel",
       "redThreshold", "greenThreshold", "blueThreshold",
       "rgbHsvThreshold", "rgbHsv", "ycbcrThreshold", "ycbcr", "faceDetection" >>

\* The steps of processImage, in its order.
Pipeline ==
    << "webcamRepeat", "grayscale", "redChannel", "greenChannel", "blueChannel",
       "redThreshold", "greenThreshold", "blueThreshold",
       "rgbHsv", "rgbHsvThreshold", "ycbcr", "ycbcrThreshold", "faceDetection" >>

FilterNames == { Pipeline[k] : k \in DOMAIN Pipeline }

\* The filters whose canvases the variable out holds.
OutNames == FilterNames \ {"webcamRepeat", "faceDetection"}

\* What processImage hands to the process of a filter.
sourceOf(name) ==
    CASE name = "rgbHsvThreshold" -> "rgbHsv"
      [] name = "ycbcrThreshold" -> "ycbcr"
      [] name = "faceDetection" -> "webcamRepeat"
      [] OTHER -> "webcamVideo"

\* The sliders, in the order setupEventListeners takes them.
SliderIds == <<"red", "green", "blue", "colorSpace1", "colorSpace2">>

\* The slider a filter was constructed with ("none": it has none).
sliderOf(name) ==
    CASE name = "redThreshold" -> "red"
      [] name = "greenThreshold" -> "green"
      [] name = "blueThreshold" -> "blue"
      [] name = "rgbHsvThreshold" -> "colorSpace1"
      [] name = "ycbcrThreshold" -> "colorSpace2"
      [] OTHER -> "none"

\* The value attribute of every slider in index.html.
SliderDefault == 128

\* The threshold a filter works with if it keeps the value the slider had
\* when the filter was constructed.
sliderValue_atConstruction(values, id) == SliderDefault

\* parseInt(this.thresholdSlider.value), values the sliders as they stand
sliderValue(values, id) == values[id]

\* processImageData of the filter name on one pixel.
processPixel(name, p, values) ==
    CASE name = "webcamRepeat" -> WebcamRepeatFilter_processImageData(p)
      [] name = "grayscale" -> GrayScaleFilter_processImageData(p)
      [] name = "redChannel" -> ChannelFilter_processImageData(p, "red")
      [] name = "greenChannel" -> ChannelFilter_processImageData(p, "green")
      [] name = "blueChannel" -> ChannelFilter_processImageData(p, "blue")
      [] name = "redThreshold" ->
           ChannelThresholdFilter_processImageData(p, "red", sliderValue(values, "red"))
      [] name = "greenThreshold" ->
           ChannelThresholdFilter_processImageData(p, "green", sliderValue(values, "green"))
      [] name = "blueThreshold" ->
           ChannelThresholdFilter_processImageData(p, "blue", sliderValue(values, "blue"))
      [] name = "rgbHsv" -> Stored(RgbHsvFilter_processImageData(p))
      [] name = "rgbHsvThreshold" ->
           RgbHsvThresholdFilter_processImageData(p, sliderValue(values, "colorSpace1"))
      [] name = "ycbcr" -> Stored(YCbCrFilter_processImageData(p))
      [] name = "ycbcrThreshold" ->
           YCbCrThresholdFilter_processImageData(p, sliderValue(values, "colorSpace2"))

\* processImageData of the filter name on the pixels of an ImageData.
processImageData(name, data, values) ==
    Built([i \in DOMAIN data |-> processPixel(name, data[i], values)])

\* The threshold filter of a slider the document lacks has thresholdSlider
\* null: reading its value in processImageData raises TypeError.
Raises(name) == sliderOf(name) # "none" /\ sliderOf(name) = absent

\* ImageFilter.process(source) of a filter whose processImageData returns:
\* the canvas afterwards.
ImageFilter_process(name, canvas, source, values) ==
    LET drawn == ImageFilter_drawImage(canvas, source)
        imageData == ImageFilter_getImageData(drawn)
        processedData == Surface(imageData.width, imageData.height,
                                 processImageData(name, imageData.pix, values))
    IN  ImageFilter_putImageData(drawn, processedData)

\* The box the detector reports in a frame with a face.
FaceBox == [x |-> 1, y |-> 1, width |-> CANVAS_WIDTH - 3, height |-> CANVAS_HEIGHT - 3]

\* faceapi.detectAllFaces(canvas): a function of the pixels it is given.  A
\* canvas of one colour holds no face, any other holds one.  ok is FALSE
\* when the models could not be loaded: the promise rejects.
detectAllFaces(canvas) ==
    [ok |-> absent # "faceModels",
     canvas |-> canvas,
     faces |-> IF absent = "faceModels" \/ \A i \in DOMAIN canvas : canvas[i] = canvas[1]
               THEN <<>> ELSE <<FaceBox>>]

\* The synchronous part of processImage from step k on: the steps run in
\* order until one raises (the catch ends the cycle) or faceDetection.process
\* reaches its await.  canvases maps every filter to its pixels, log lists
\* the filters whose process has run.
RECURSIVE processImage_from(_, _, _, _, _)
processImage_from(k, canvases, log, frame, values) ==
    IF k > Len(Pipeline)
    THEN [canvases |-> canvases, ran |-> log, raised |-> "none"]
    ELSE LET name == Pipeline[k]
             source == IF sourceOf(name) = "webcamVideo" THEN frame
                       ELSE canvases[sourceOf(name)]
         IN  IF name = "faceDetection"
             THEN processImage_from(k + 1,
                      [canvases EXCEPT ![name] = ImageFilter_drawImage(canvases[name], source)],
                      Append(log, name), frame, values)
             ELSE IF Raises(name)
             THEN [canvases |-> [canvases EXCEPT ![name] =
                                     ImageFilter_drawImage(canvases[name], source)],
                   ran |-> log, raised |-> name]
             ELSE processImage_from(k + 1,
                      [canvases EXCEPT ![name] =
                           ImageFilter_process(name, canvases[name], source, values)],
                      Append(log, name), frame, values)

\* The calls of processImage a behaviour follows.
MaxCycles == 2

\* No cycle has yet completed with no other cycle started meanwhile.
NoDone == [valid |-> FALSE, src |-> <<>>, sliders |-> <<>>, dst |-> <<>>]

SliderSamples == {160, SliderDefault}

\* The sliders whose input listener setupEventListeners registered: forEach
\* stops with a TypeError at the slider the document lacks.
Registered ==
    { SliderIds[k] : k \in { j \in DOMAIN SliderIds :
                                \A m \in 1 .. j : SliderIds[m] # absent } }

InitCycle ==
    /\ src = createCanvas(CANVAS_WIDTH, CANVAS_HEIGHT).pix
    /\ dst = src
    /\ out = [n \in OutNames |-> createCanvas(CANVAS_WIDTH, CANVAS_HEIGHT).pix]
    /\ sliders = [k \in { SliderIds[j] : j \in DOMAIN SliderIds } |-> SliderDefault]
    /\ absent \in {"none", "faceModels"} \cup { SliderIds[j] : j \in DOMAIN SliderIds }
    /\ pending = <<>> /\ ran = <<>> /\ raised = "none" /\ moved = "none"
    /\ alone = TRUE /\ done = NoDone /\ repeat = FALSE /\ cycles = 0 /\ seen = <<>>
    /\ detections = <<>> /\ dstBefore = dst /\ effect = "none" /\ error = "none"
    /\ srcRead = <<>> /\ dstWrite = <<>> /\ drawnWith = NoFilter
    /\ pin = <<0, 0, 0, 255>> /\ px = pin /\ stage = "raw" /\ filt = <<>>
    /\ thr = <<>> /\ prev = pin

\* A behaviour of the cycles is followed up to its first key press: every
\* step below waits for effect = "none".

\* processImage up to its await, on the frame the camera shows, with the
\* sliders at values; slider is the one whose input started it ("none": the
\* capture button did).
processImage(frame, values, slider) ==
    /\ effect = "none"
    /\ cycles < MaxCycles
    /\ cycles' = cycles + 1
    /\ \E r \in { processImage_from(1,
                       [n \in FilterNames |->
                           IF n = "webcamRepeat" THEN src
                           ELSE IF n = "faceDetection" THEN dst ELSE out[n]],
                       <<>>, frame, values) } :
           /\ src' = r.canvases["webcamRepeat"]
           /\ dst' = r.canvases["faceDetection"]
           /\ out' = [n \in OutNames |-> r.canvases[n]]
           /\ ran' = r.ran
           /\ raised' = r.raised
           /\ pending' = IF r.raised = "none"
                         THEN Append(pending, detectAllFaces(r.canvases["faceDetection"]))
                         ELSE pending
    /\ moved' = slider
    /\ alone' = (pending = <<>>)
    /\ repeat' = FALSE
    /\ UNCHANGED <<absent, done, seen>>
    /\ UNCHANGED <<detections, dstBefore, effect, error, srcRead, dstWrite, drawnWith>>
    /\ UNCHANGED pixelVars

CaptureClick ==
    \E frame \in Frames :
        /\ processImage(frame, sliders, "none")
        /\ UNCHANGED sliders

SliderInput ==
    \E id \in Registered, frame \in Frames :
        \E value \in SliderSamples \ {sliders[id]} :
            /\ sliders' = [sliders EXCEPT ![id] = value]
            /\ processImage(frame, sliders', id)

\* FaceDetectionFilter.drawDetections: a box around every detection.
drawDetections(canvas, faces) ==
    IF faces = <<>> THEN canvas
    ELSE strokeRect(Canvas(canvas), faces[1].x, faces[1].y, faces[1].width, faces[1].height)

Without(seq, i) == [j \in 1 .. Len(seq) - 1 |-> IF j < i THEN seq[j] ELSE seq[j + 1]]

\* The detector answers the cycle that is i-th in waiting: detectFaces
\* stores the detections, drawDetections draws them, processImage returns.
DetectionResolved ==
    \E i \in DOMAIN pending :
        /\ effect = "none"
        /\ pending[i].ok
        /\ detections' = pending[i].faces
        /\ dst' = drawDetections(dst, pending[i].faces)
        /\ pending' = Without(pending, i)
        /\ IF Len(pending) = 1
           THEN /\ done' = IF alone
                            THEN [valid |-> TRUE, src |-> src, sliders |-> sliders, dst |-> dst']
                            ELSE NoDone
                /\ repeat' = (alone /\ done.valid /\ done.src = src /\ done.sliders = sliders)
           ELSE UNCHANGED <<done, repeat>>
        /\ seen' = pending[i].canvas
        /\ UNCHANGED <<src, out, sliders, absent, ran, raised, moved, alone, cycles>>
        /\ UNCHANGED <<dstBefore, effect, error, srcRead, dstWrite, drawnWith>>
        /\ UNCHANGED pixelVars

\* The detector rejects: the catch of processImage reports it.
DetectionRejected ==
    \E i \in DOMAIN pending :
        /\ effect = "none"
        /\ ~pending[i].ok
        /\ pending' = Without(pending, i)
        /\ raised' = "faceDetection"
        /\ UNCHANGED <<src, dst, out, sliders, absent, ran, moved, alone, done, repeat, cycles, seen>>
        /\ UNCHANGED <<detections, dstBefore, effect, error, srcRead, dstWrite, drawnWith>>
        /\ UNCHANGED pixelVars

\* The key 1 pressed between the steps of the cycles: handleKeyPress works
\* on the canvases and the detections as they stand.  The effects themselves
\* are followed in SpecMask; one of them shows which frame a region meets.
KeyPressInCycle ==
    /\ effect = "none"
    /\ \E out1 \in { handleKeyPress(Canvas(Canvases[maskFaceCanvasId]), "1", detections,
                                     Canvas(Canvases[sourceCanvasId]), TRUE) } :
           Effected(out1)
    /\ dstBefore' = dst
    /\ effect' = KeyEffect("1")
    /\ UNCHANGED detections
    /\ UNCHANGED pixelVars
    /\ UNCHANGED cycleVars

NextCycle ==
    CaptureClick \/ SliderInput \/ DetectionResolved \/ DetectionRejected \/ KeyPressInCycle

SpecCycle == InitCycle /\ [][NextCycle]_vars

\* ------------------------------------------------------------------------
\* Vocabulary of the properties

Black == <<0, 0, 0, 255>>

\* The filter that ran last on px, and the threshold it read.
LastFilt == IF stage = "second" THEN filt[2] ELSE filt[1]
LastThr == IF stage = "second" THEN thr[2] ELSE thr[1]

Within(a, b, tol) == Abs(a - b) <= tol

\* The region the last key press used, and the pixels of the frame.
Reg == detections[1]
Applied == effect \in Effects /\ detections # <<>>
FrameIdx == 1 .. CANVAS_WIDTH * CANVAS_HEIGHT
FX(i) == XOf(i, CANVAS_WIDTH)
FY(i) == YOf(i, CANVAS_WIDTH)
InRegion(i) == InRect(FX(i), FY(i), Reg.x, Reg.y, Reg.width, Reg.height)
RegionIdx == { i \in FrameIdx : InRegion(i) }

\* The rectangle <<x, y, w, h>> lies within the frame.
RectInFrame(r) ==
    /\ r[1] >= 0
    /\ r[2] >= 0
    /\ r[1] + r[3] <= CANVAS_WIDTH
    /\ r[2] + r[4] <= CANVAS_HEIGHT

\* A region with pixels inside the frame and pixels beyond its right or bottom edge.
Straddles(r) ==
    /\ r.width > 0 /\ r.height > 0
    /\ r.x >= 0 /\ r.y >= 0
    /\ r.x < CANVAS_WIDTH /\ r.y < CANVAS_HEIGHT
    /\ (r.x + r.width > CANVAS_WIDTH \/ r.y + r.height > CANVAS_HEIGHT)

\* A region of positive width and height with no pixel inside the frame.
EntirelyOutside(r) ==
    /\ r.width > 0 /\ r.height > 0
    /\ \/ r.x >= CANVAS_WIDTH
       \/ r.y >= CANVAS_HEIGHT
       \/ r.x + r.width <= 0
       \/ r.y + r.height <= 0

\* The block of the pixelate loop that holds the frame pixel i.
BlockOf(i) == <<(FX(i) - Reg.x) \div BLOCK_SIZE, (FY(i) - Reg.y) \div BLOCK_SIZE>>

CeilDiv(n, d) == (n + d - 1) \div d

RECURSIVE SumSrc(_, _)
\* The sum of channel k of the source pixels at the indices S.
SumSrc(S, k) ==
    IF S = {} THEN 0
    ELSE LET i == CHOOSE e \in S : TRUE
         IN  src[i][k] + SumSrc(S \ {i}, k)

\* ------------------------------------------------------------------------
\* Properties

\* C1: for a region that straddles the right or bottom edge of the frame, the
\* rectangle an effect asks the source canvas for and the rectangle it hands
\* to the destination canvas lie within the frame: the region is clipped
\* against the bounds before any read.
C1_ClippedBeforeRead ==
    (Applied /\ Straddles(Reg)) =>
        /\ srcRead # <<>> => RectInFrame(srcRead)
        /\ dstWrite # <<>> => RectInFrame(dstWrite)

\* C2: an effect applied with a region that lies entirely outside the frame
\* leaves the destination canvas as it was and raises no error.
C2_OutsideRegionNoOp ==
    (Applied /\ EntirelyOutside(Reg)) => (dst = dstBefore /\ error = "none")

C2_Witness ==
    /\ Applied
    /\ effect = "pixelate"
    /\ EntirelyOutside(Reg)
    /\ Reg.x = CANVAS_WIDTH
    /\ Reg.width > BLOCK_SIZE
    /\ error = "none"
    /\ dst = dstBefore
    /\ dst # src

\* C3: after an effect, every pixel of the destination canvas outside the
\* region is as it was before the effect.
C3_OutsideRegionUnchanged ==
    Applied => \A i \in FrameIdx \ RegionIdx : dst[i] = dstBefore[i]

C3_Witness ==
    /\ Applied
    /\ effect = "grayscale"
    /\ error = "none"
    /\ Straddles(Reg)
    /\ \E i \in RegionIdx : dst[i] # dstBefore[i]
    /\ \E i \in FrameIdx \ RegionIdx : dst[i] = <<0, 255, 0, 255>> /\ src[i] # dst[i]

\* C4: after pixelate, every pixel of the region that is inside the frame has
\* the colour round(mean) of the source pixels of its block that are present
\* in the source canvas, padding counted neither in the sum nor in the divisor.
C4_BlockMeanOverPresentPixels ==
    (Applied /\ effect = "pixelate" /\ error = "none") =>
        \A i \in RegionIdx :
            LET present == { j \in RegionIdx : BlockOf(j) = BlockOf(i) }
                count == Cardinality(present)
            IN  \A k \in 1 .. 3 : dst[i][k] = MathRound(SumSrc(present, k), count)

\* C5: pixelate on a region whose source pixels all have one colour leaves
\* every pixel of the region in the destination with that colour.
C5_PixelateUniformUnchanged ==
    (/\ Applied
     /\ effect = "pixelate"
     /\ error = "none"
     /\ \A i, j \in RegionIdx : src[i] = src[j]) =>
        \A i \in RegionIdx : dst[i] = src[i]

\* C6: after pixelate on a region of width w and height h, the pixels of the
\* region take at most ceil(w / BLOCK_SIZE) * ceil(h / BLOCK_SIZE) distinct
\* colours, and the pixels of one block share one colour.
C6_PixelateBlockColours ==
    (Applied /\ effect = "pixelate" /\ error = "none") =>
        /\ Cardinality({ dst[i] : i \in RegionIdx })
              <= CeilDiv(Reg.width, BLOCK_SIZE) * CeilDiv(Reg.height, BLOCK_SIZE)
        /\ \A i, j \in RegionIdx : BlockOf(i) = BlockOf(j) => dst[i] = dst[j]

C6_Witness ==
    /\ Applied
    /\ effect = "pixelate"
    /\ error = "none"
    /\ RectInFrame(RectOf(Reg))
    /\ Reg.width > BLOCK_SIZE
    /\ Reg.height > BLOCK_SIZE
    /\ Cardinality({ dst[i] : i \in RegionIdx }) = 4
    /\ \E i \in RegionIdx : dst[i] # src[i]

\* C7: the bytes RgbHsvFilter stores for an RGB pixel, decoded with hsvToRgb,
\* give the pixel back within 2 on each channel.
C7_HsvRoundTripWithin2 ==
    (stage = "first" /\ filt[1] = "rgbHsv") =>
        LET rgb == hsvToRgb(px[1], px[2], px[3])
        IN  \A k \in 1 .. 3 : Within(rgb[k], pin[k], 2)

\* C8: the pixel ChannelThresholdFilter emits for channel k has 0 or 255 in
\* channel k, 0 in the two other colour channels and alpha 255.
C8_ChannelThresholdBinary ==
    (stage # "raw" /\ LastFilt \in Channels) =>
        /\ px[channelIndex(LastFilt)] \in {0, 255}
        /\ \A c \in Channels \ {LastFilt} : px[channelIndex(c)] = 0
        /\ px[4] = 255

C8_Witness ==
    /\ stage = "first"
    /\ filt[1] = "green"
    /\ pin[4] = 128
    /\ pin[1] = 255
    /\ px = <<0, 255, 0, 255>>

\* The component a threshold filter compares with its threshold.
Designated(name, p) ==
    CASE name \in Channels -> p[channelIndex(name)]
      [] name = "rgbHsvThreshold" -> p[3]
      [] name = "ycbcrThreshold" -> p[1]

ThresholdFilters == Channels \cup {"rgbHsvThreshold", "ycbcrThreshold"}

\* C9: in the three threshold filters the comparison is strict: the emitted
\* pixel is black exactly when the designated component of the pixel read is
\* at most the threshold; a component equal to the threshold gives black.
C9_StrictComparison ==
    (stage # "raw" /\ LastFilt \in ThresholdFilters) =>
        (px = Black <=> Designated(LastFilt, prev) <= LastThr)

C9_Witness ==
    /\ stage = "second"
    /\ filt = <<"rgbHsv", "rgbHsvThreshold">>
    /\ prev[3] = thr[2]
    /\ prev[3] = 128
    /\ px = Black

\* C10: YCbCrFilter stores (255, 128, 128) for pure white and (0, 128, 128)
\* for pure black, each within 1, and leaves alpha as it was.
C10_YCbCrWhiteBlack ==
    (stage = "first" /\ filt[1] = "ycbcr") =>
        /\ px[4] = pin[4]
        /\ (pin[1] = 255 /\ pin[2] = 255 /\ pin[3] = 255) =>
              (Within(px[1], 255, 1) /\ Within(px[2], 128, 1) /\ Within(px[3], 128, 1))
        /\ (pin[1] = 0 /\ pin[2] = 0 /\ pin[3] = 0) =>
              (Within(px[1], 0, 1) /\ Within(px[2], 128, 1) /\ Within(px[3], 128, 1))

C10_Witness ==
    /\ stage = "first"
    /\ filt[1] = "ycbcr"
    /\ pin = <<255, 255, 255, 128>>
    /\ px = <<255, 128, 128, 128>>

\* C15: while the detections are empty, a press of one of the keys 1 to 4
\* changes no canvas, asks the source for nothing, writes nothing and raises
\* no error.
C15_NoDetectionNoOp ==
    (effect # "none" /\ detections = <<>>) =>
        /\ dst = dstBefore
        /\ error = "none"
        /\ srcRead = <<>>
        /\ dstWrite = <<>>

C15_Witness ==
    /\ effect = "grayscale"
    /\ detections = <<>>
    /\ dst = dstBefore
    /\ dst = src
    /\ error = "none"

\* C17: no failure leaves handleKeyPress: whatever the effect and the box, the
\* promise of the handler resolves (error stays "none").
C17_NoFailureEscapes ==
    effect \in Effects \cup {"none", "unhandled"} => error = "none"

\* C19: when the blur effect draws the region into the destination canvas, the
\* filter of the drawing context is blur(BLUR_RADIUS).
C19_BlurActiveAtDraw ==
    (Applied /\ effect = "blur" /\ error = "none") => drawnWith = <<"blur", BLUR_RADIUS>>

\* The hue of the six-sector formula with a modulo that is never negative,
\* over the denominator hueDen.
hueNumNonNegative(R, G, B) ==
    IF hueNum(R, G, B) < 0
    THEN hueNum(R, G, B) + 360 * hueDen(R, G, B)
    ELSE hueNum(R, G, B)

\* C20: for a pixel whose channels are not all equal, the hue byte RgbHsvFilter
\* stores is round(h * 255 / 360) for the hue h in [0, 360) of the six-sector
\* formula with a non-negative modulo; where red is the maximum and g < b, h
\* lies in [300, 360) and the byte is not 0.
C20_HueNonNegativeModulo ==
    (/\ stage = "first"
     /\ filt[1] = "rgbHsv"
     /\ Max3(pin[1], pin[2], pin[3]) # Min3(pin[1], pin[2], pin[3])) =>
        /\ px[1] \in ToUint8Clamped(255 * hueNumNonNegative(pin[1], pin[2], pin[3]),
                                    360 * hueDen(pin[1], pin[2], pin[3]))
        /\ (pin[1] = Max3(pin[1], pin[2], pin[3]) /\ pin[2] < pin[3]) => px[1] # 0

\* C11: processImage is deterministic.  A cycle that starts on the frame and
\* the slider values of the cycle before it, which ran every filter, leaves
\* the canvas of every filter as that cycle left it; and when it completes,
\* no other cycle having run meanwhile, the faceDetection canvas is what it
\* was when the cycle before completed.
C11_CycleDeterministic ==
    [][ /\ ( /\ cycles' = cycles + 1
             /\ ran = Pipeline /\ raised = "none" /\ raised' = "none"
             /\ src' = src /\ sliders' = sliders ) => out' = out
        /\ (repeat' /\ Len(pending') < Len(pending)) => dst' = done.dst ]_vars

C11_Witness ==
    /\ repeat /\ cycles = 2 /\ ran = Pipeline /\ raised = "none"
    /\ done.src = src /\ dst = done.dst /\ detections = <<FaceBox>>
    /\ \E i \in DOMAIN dst : dst[i] # src[i]

\* The filter name is among those the sequence lists.
InSeq(seq, name) == \E k \in DOMAIN seq : seq[k] = name

\* C12: a filter that raises is isolated.  In a cycle in which the process of
\* one filter raised, every other filter that does not read the canvas of
\* that filter has run.
C12_FailureIsolated ==
    raised # "none" =>
        \A name \in FilterNames \ {raised} :
            sourceOf(name) # raised => InSeq(ran, name)

\* C13: a filter whose processImageData raises keeps its canvas.  After a
\* cycle in which the processImageData of a filter raised, the canvas of
\* that filter holds what it held before the cycle.
C13_RaiseKeepsBuffer ==
    [][ (cycles' = cycles + 1 /\ raised' \in OutNames) =>
            out'[raised'] = out[raised'] ]_vars

\* Where the sequence lists the filter name.
Position(seq, name) == CHOOSE k \in DOMAIN seq : seq[k] = name

\* The filters processImage hands the canvas of another filter.
Dependents == {"rgbHsvThreshold", "ycbcrThreshold"}

\* C14: a dependent filter reads the output its upstream filter produced in
\* the same cycle.  When the HSV threshold (the YCbCr threshold) has run in
\* a cycle, the HSV filter (the YCbCr filter) ran before it in that cycle,
\* the canvas of the upstream filter is the conversion of the frame of that
\* cycle, and the canvas of the threshold filter is the threshold of it.
C14_DependentReadsFresh ==
    \A name \in Dependents :
        InSeq(ran, name) =>
            /\ InSeq(ran, sourceOf(name))
            /\ Position(ran, sourceOf(name)) < Position(ran, name)
            /\ out[sourceOf(name)] = processImageData(sourceOf(name), src, sliders)
            /\ out[name] = processImageData(name, out[sourceOf(name)], sliders)

C14_Witness ==
    /\ cycles = 2 /\ done.valid /\ done.src # src
    /\ \A name \in Dependents :
           /\ InSeq(ran, name)
           /\ out[name] = processImageData(name, out[sourceOf(name)], sliders)
           /\ out[name] # processImageData(name,
                               processImageData(sourceOf(name), done.src, sliders), sliders)

\* C16: cycles do not overlap.  No call of processImage starts running the
\* filters while an earlier call still waits for the detector.
C16_CyclesDoNotOverlap ==
    [][ cycles' = cycles + 1 => pending = <<>> ]_vars

\* The threshold filter constructed with the slider id.
filterOf(id) == CHOOSE name \in FilterNames : sliderOf(name) = id

\* The threshold filter of the slider id applied to the pixel p with the
\* threshold t.
thresholdPixel(id, p, t) ==
    CASE id = "colorSpace1" -> RgbHsvThresholdFilter_processImageData(p, t)
      [] id = "colorSpace2" -> YCbCrThresholdFilter_processImageData(p, t)
      [] OTHER -> ChannelThresholdFilter_processImageData(p, id, t)

\* What the cycle handed to the threshold filter of the slider id.
thresholdInput(id) ==
    IF sourceOf(filterOf(id)) = "webcamVideo" THEN src ELSE out[sourceOf(filterOf(id))]

\* C18: a threshold filter works with the value its slider has when the
\* filter processes.  After the input event that set a slider to t' and the
\* cycle it started, the canvas of the threshold filter of that slider is
\* the filter applied with the threshold t'.
C18_ThresholdAtProcessingTime ==
    moved # "none" =>
        out[filterOf(moved)] =
            [i \in DOMAIN src |->
                thresholdPixel(moved, thresholdInput(moved)[i], sliders[moved])]

C18_Witness ==
    /\ moved = "colorSpace2" /\ sliders[moved] # SliderDefault
    /\ InSeq(ran, filterOf(moved))
    /\ out[filterOf(moved)] =
           [i \in DOMAIN src |->
               thresholdPixel(moved, thresholdInput(moved)[i], sliders[moved])]
    /\ out[filterOf(moved)] #
           [i \in DOMAIN src |->
               thresholdPixel(moved, thresholdInput(moved)[i], SliderDefault)]

\* C21: the grayscale effect.  After the grayscale effect on a region, every
\* pixel of the destination that lies in the region has in R, G and B the
\* mean (R + G + B) / 3 of the source pixel at the same place, rounded to a
\* byte, and the alpha of that source pixel.
C21_GrayscaleRegionMean ==
    (Applied /\ effect = "grayscale" /\ error = "none") =>
        \A i \in RegionIdx :
            LET mean == MathRound(src[i][1] + src[i][2] + src[i][3], 3)
            IN  dst[i] = <<mean, mean, mean, src[i][4]>>

C21_Witness ==
    /\ Applied /\ effect = "grayscale" /\ error = "none"
    /\ RectInFrame(RectOf(Reg)) /\ Reg.width > 1 /\ Reg.height > 0
    /\ \E i \in RegionIdx :
           /\ (src[i][1] + src[i][2] + src[i][3]) % 3 = 2
           /\ dst[i][1] = (src[i][1] + src[i][2] + src[i][3]) \div 3 + 1
           /\ dst[i] # src[i]

\* C22: the three threshold filters emit opaque pixels.  Every pixel emitted
\* by ChannelThresholdFilter, RgbHsvThresholdFilter or YCbCrThresholdFilter
\* has alpha 255, whatever the alpha of the pixel read and whichever side of
\* the threshold it fell on; and a pixel emitted by YCbCrThresholdFilter is
\* white (255, 255, 255) or black (0, 0, 0).
C22_ThresholdAlphaOpaque ==
    (stage # "raw" /\ LastFilt \in ThresholdFilters) =>
        /\ px[4] = 255
        /\ LastFilt = "ycbcrThreshold" =>
              <<px[1], px[2], px[3]>> \in {<<255, 255, 255>>, <<0, 0, 0>>}

C22_Witness ==
    /\ stage = "second"
    /\ filt = <<"rgbHsv", "rgbHsvThreshold">>
    /\ prev[4] = 128 /\ pin[4] = 128
    /\ prev[3] > thr[2]
    /\ px # Black /\ px[4] = 255

\* C23: ChannelFilter isolates its channel.  The pixel the ChannelFilter of
\* channel k emits has channel k and alpha as in the pixel read and 0 in the
\* two other colour channels.
C23_ChannelIsolated ==
    \A channel \in Channels :
        (stage = "first" /\ filt[1] = ChannelFilterName(channel)) =>
            /\ px[channelIndex(channel)] = pin[channelIndex(channel)]
            /\ px[4] = pin[4]
            /\ \A c \in Channels \ {channel} : px[channelIndex(c)] = 0

C23_Witness ==
    /\ stage = "first"
    /\ filt[1] = "blueChannel"
    /\ pin = <<128, 255, 1, 128>>
    /\ px = <<0, 0, 1, 128>>

\* C24: GrayScaleFilter.  The pixel emitted has in R, G and B the same byte,
\* min(((R + G + B) / 3) * brightnessIncrease, 255) rounded, with
\* brightnessIncrease 1.2; the byte never exceeds 255 and never wraps
\* around; alpha is as in the pixel read.
C24_GrayScaleBrightened ==
    (stage = "first" /\ filt[1] = "grayscale") =>
        LET sum == pin[1] + pin[2] + pin[3]
            expected == MathRound(Min2(BrightnessNum * sum, 255 * 3 * BrightnessDen),
                                  3 * BrightnessDen)
        IN  /\ px = <<expected, expected, expected, pin[4]>>
            /\ px[1] <= 255
            /\ (BrightnessNum * sum >= 255 * 3 * BrightnessDen) => px[1] = 255

C24_Witness ==
    /\ stage = "first"
    /\ filt[1] = "grayscale"
    /\ pin = <<255, 255, 255, 128>>
    /\ px = <<255, 255, 255, 128>>

\* C25: an effect meets the frame its region was detected on.  Whenever a
\* key press has applied an effect to the box of the first detection, the
\* picture that detection was found in is the frame the webcamRepeat canvas
\* holds.
C25_RegionOfCurrentFrame ==
    Applied => seen = src

\* C26: of two overlapping cycles the later one decides the detections.
\* When a call of processImage started while an earlier one was still
\* waiting for the detector and both have completed, the detections are
\* those of the frame the later call drew, in whichever order the detector
\* answered.
C26_LaterCycleDecides ==
    (cycles >= 2 /\ ~alone /\ pending = <<>> /\ raised = "none") =>
        detections = detectAllFaces(src).faces

\* C27: no effect touches its source.  A key press that applies an effect
\* leaves the pixels of the canvas it hands over as the source, the
\* webcamRepeat canvas, as they were.
C27_SourceUntouched ==
    [][ (effect = "none" /\ effect' # "none") => src' = src ]_vars

C27_Witness ==
    /\ Applied /\ effect = "ycbcr" /\ error = "none"
    /\ RectInFrame(RectOf(Reg)) /\ Reg.width > 1 /\ Reg.height > 1
    /\ dst # dstBefore
    /\ src \in Frames
    /\ \E i \in RegionIdx : dst[i] # src[i]

\* C28: the HSV threshold of a cycle.  After a cycle that ran the HSV
\* threshold filter with the threshold t, a pixel of its canvas is black
\* (0, 0, 0, 255) exactly when max(R, G, B) of the pixel of the frame at the
\* same place is at most t.
C28_HsvThresholdOnMax ==
    InSeq(ran, "rgbHsvThreshold") =>
        \A i \in DOMAIN src :
            out["rgbHsvThreshold"][i] = Black
                <=> Max3(src[i][1], src[i][2], src[i][3]) <= sliders["colorSpace1"]

C28_Witness ==
    /\ InSeq(ran, "rgbHsvThreshold")
    /\ moved = "colorSpace1" /\ sliders["colorSpace1"] # SliderDefault
    /\ \E i \in DOMAIN src :
           /\ out["rgbHsvThreshold"][i] = Black
           /\ Max3(src[i][1], src[i][2], src[i][3]) > SliderDefault
    /\ \E i \in DOMAIN src : out["rgbHsvThreshold"][i] # Black

\* C30: the channel threshold and the YCbCr threshold are idempotent.  With
\* the threshold t held fixed, running either filter on its own output gives
\* that output again, for every input pixel and every t.
C30_ThresholdIdempotent ==
    ( /\ stage = "second"
      /\ filt[1] = filt[2] /\ thr[1] = thr[2]
      /\ filt[1] \in Channels \cup {"ycbcrThreshold"} ) => px = prev

C30_Witness ==
    /\ stage = "second"
    /\ filt = <<"red", "red">> /\ thr = <<128, 128>>
    /\ pin = <<255, 128, 1, 128>>
    /\ prev = <<255, 0, 0, 255>> /\ px = prev

\* C29: a name or a key that stands for no effect does nothing.  applyEffect
\* called with a name other than grayscale, blur, pixelate and ycbcr, and
\* handleKeyPress called with a key other than 1, 2, 3 and 4 while there is a
\* detection, leave the canvases as they were and raise nothing.
C29_NoEffectNoChange ==
    [][ ( /\ effect = "none" /\ effect' \notin Effects \cup {"none"}
          /\ detections # <<>> )
        => (dst' = dst /\ src' = src /\ error' = "none") ]_vars

====
